---- MODULE Spec2Model ----
(***************************************************************************)
(* Penput: connection arbitration and the two session protocols.           *)
(*                                                                         *)
(*   connection.rs  ConnectionSlot, ApprovalBroker, approval_worker        *)
(*   udp.rs         serve_udp (datagram arm and the 1 s tick arm)          *)
(*   websocket.rs   handle_socket (one task per upgraded connection)       *)
(*   mouse.rs       MouseController::move_absolute (latest-value cell)     *)
(*                                                                         *)
(* Every await on shared state (the slot mutex, the approval queue, a      *)
(* oneshot response channel) is one step of the task that performs it.     *)
(***************************************************************************)
EXTENDS Integers, Sequences, FiniteSets, TLC

\* ------------------------------------------------------------------ bounds
MaxConns   == 2    \* WebSocket connection tasks alive at once
MaxTasks   == 18   \* callers of request_approval in the broker harness
MaxAge     == 6    \* an Instant older than this many seconds is kept as this old
MaxLines   == 1    \* operator inputs in one run: lines typed, stdin closed
MaxAbandon == 1    \* request futures dropped by their caller in one run
MaxWaiters == 4    \* callers of request_approval in the abandonment harness
MaxOps     == 4    \* length of a call sequence in the slot harness

\* ------------------------------------------------------- program constants
CHANNEL_CAP     == 16   \* mpsc::channel(16)
SESSION_TIMEOUT == 5    \* Duration::from_secs(5)
TICK_PERIOD     == 1    \* time::interval(Duration::from_secs(1))

None   == "none"
Peers  == {"A", "B"}                 \* SocketAddr values
Conns  == 1..MaxConns                \* WebSocket handler tasks
Tasks  == 1..MaxTasks                \* harness tasks
UDP    == 0                          \* the UDP listener as a caller
Callers == 0..MaxTasks
Dims   == {<<0, 0>>, <<100, 200>>}   \* (w, h) a client reports
Points == {<<50, 100>>}              \* (x, y) of a move
Lines  == {" YES", "n"}              \* what the operator may type
SCREEN == <<1920, 1080>>             \* MouseController::screen_size()

VARIABLES
    auto_approve,   \* ApprovalBroker.auto_approve
    slot,           \* ConnectionSlot.inner: None or the occupant
    queue,          \* the mpsc channel's buffer of PendingApproval
    sendq,          \* callers suspended in tx.send().await, oldest first
    chan,           \* chan[c]: caller c's oneshot response channel
    call,           \* call[c]: caller c's request_approval future
    ndec,           \* ndec[c]: decisions delivered on c's current channel
    wpc,            \* approval_worker: "recv", "prompt" or "dead"
    cur,            \* the PendingApproval the worker is prompting for
    stdin,          \* lines typed and not yet read
    stdin_eof,      \* stdin was closed
    typed,          \* operator inputs so far
    stale,          \* unread lines typed before the request now presented was
                    \* prompted (every unread line while none is presented)
    upc,            \* serve_udp: "select", "claimed" or "approval"
    hello,          \* the HELLO being handled: addr, w, h, now
    session,        \* serve_udp's session: None or a UdpSession
    tickDue,        \* the interval has a tick ready
    uevt,           \* the last event the UDP loop handled
    reply,          \* the datagram sent in answer to it, or None
    sendok,         \* whether that send_to succeeded (the code drops the result)
    latest,         \* SharedMove.latest
    pc,             \* pc[k]: where handle_socket of connection k is
    waddr,          \* waddr[k]: its peer address
    ctx,            \* ctx[k]: its ClientCtx
    wsout,          \* wsout[k]: the last message sent on it
    trace           \* harnesses: the slot calls made and what they returned;
                    \* the last pointer position the mouse worker actuated

brokerVars == <<queue, sendq, chan, call, ndec>>
workerVars == <<wpc, cur, stdin, stdin_eof, typed, stale>>
udpVars    == <<upc, hello, session, uevt, reply, sendok>>
timeVars   == <<tickDue>>
wsVars     == <<pc, waddr, ctx, wsout>>
vars == <<auto_approve, slot, brokerVars, workerVars, udpVars, timeVars,
          latest, wsVars, trace>>

\* ============================================================ ConnectionSlot

\* try_claim with the occupancy test left out.
try_claim_overwrite(s, addr) == [ok |-> TRUE, slot |-> addr]

\* try_claim that lets the occupant claim again.
try_claim_reentrant(s, addr) ==
    IF s # None /\ s # addr THEN [ok |-> FALSE, slot |-> s]
    ELSE [ok |-> TRUE, slot |-> addr]

\* try_claim that tells a second caller it won and keeps the occupant.
try_claim_shared(s, addr) ==
    [ok |-> TRUE, slot |-> IF s # None THEN s ELSE addr]

\* ConnectionSlot::try_claim: the result and the occupant afterwards.
try_claim(s, addr) ==
    IF s # None THEN [ok |-> FALSE, slot |-> s]
    ELSE [ok |-> TRUE, slot |-> addr]

\* release that forgets to clear the occupant.
release_keep(s) == s

\* ConnectionSlot::release: the occupant afterwards.
release(s) == None

\* ============================================================ ApprovalBroker

\* A oneshot channel: "none" (not created, or both halves gone), "open" (the
\* sender is in the queue or with the worker, the receiver is awaited),
\* "rx_dropped" (the receiver was dropped first), "true"/"false" (a value was
\* sent and not yet read), "tx_dropped" (the sender was dropped unsent).
ChanStates == {"none", "open", "rx_dropped", "true", "false", "tx_dropped"}

\* A request_approval future: "idle" (no call), "sending" (suspended in
\* tx.send().await), "waiting" (suspended in rx.await), "true"/"false" (it
\* returned that), "cancelled" (dropped by its caller before it returned).
CallStates == {"idle", "sending", "waiting", "true", "false", "cancelled"}

\* PendingApproval { ip, respond }: respond names the caller's channel.
PendingApproval(ip, c) == [ip |-> ip, respond |-> c]

\* The worker holds no request.
NoPending == [ip |-> None, respond |-> UDP]

\* The mpsc receiver was dropped: the worker task is gone.
rx_closed == wpc = "dead"

\* mpsc::Sender::send with a permit: the request joins the queue's tail.
enqueue(q, p) == Append(q, p)

\* Auto-approve that still goes through the queue.
auto_path_off == FALSE

\* request_approval line 57: the early return is taken.
auto_path == auto_approve

\* ApprovalBroker::request_approval up to its first suspension: caller c asks
\* for a decision on ip.
request_approval(c, ip) ==
    /\ call[c] = "idle"
    /\ IF auto_path THEN
            /\ call' = [call EXCEPT ![c] = "true"]
            /\ UNCHANGED <<queue, sendq, chan, ndec>>
       ELSE IF rx_closed THEN
            \* tx.send returns Err: warn, return false
            /\ call' = [call EXCEPT ![c] = "false"]
            /\ UNCHANGED <<queue, sendq, chan, ndec>>
       ELSE IF Len(queue) < CHANNEL_CAP /\ sendq = <<>> THEN
            /\ queue' = enqueue(queue, PendingApproval(ip, c))
            /\ chan' = [chan EXCEPT ![c] = "open"]
            /\ ndec' = [ndec EXCEPT ![c] = 0]
            /\ call' = [call EXCEPT ![c] = "waiting"]
            /\ UNCHANGED sendq
       ELSE
            \* no permit: tx.send().await suspends, first come first served
            /\ sendq' = Append(sendq, PendingApproval(ip, c))
            /\ call' = [call EXCEPT ![c] = "sending"]
            /\ UNCHANGED <<queue, chan, ndec>>

\* rx.await.unwrap_or(false): the value sent, false when the sender is gone.
unwrap_or_false(ch) == ch = "true"

\* The request_approval future of caller c is polled and makes progress:
\* a suspended send gets its permit (or finds the queue closed), a suspended
\* rx.await finds the channel resolved.
PollApproval(c) ==
    /\ call[c] \in {"sending", "waiting"}
    /\ IF call[c] = "sending" THEN
            IF rx_closed THEN
                /\ sendq' = SelectSeq(sendq, LAMBDA p : p.respond # c)
                /\ call' = [call EXCEPT ![c] = "false"]
                /\ UNCHANGED <<queue, chan, ndec>>
            ELSE
                /\ sendq # <<>>
                /\ Head(sendq).respond = c
                /\ Len(queue) < CHANNEL_CAP
                /\ queue' = enqueue(queue, Head(sendq))
                /\ sendq' = Tail(sendq)
                /\ chan' = [chan EXCEPT ![c] = "open"]
                /\ ndec' = [ndec EXCEPT ![c] = 0]
                /\ call' = [call EXCEPT ![c] = "waiting"]
       ELSE
            /\ chan[c] \in {"true", "false", "tx_dropped"}
            /\ call' = [call EXCEPT ![c] =
                            IF unwrap_or_false(chan[c]) THEN "true" ELSE "false"]
            /\ chan' = [chan EXCEPT ![c] = "none"]
            /\ UNCHANGED <<queue, sendq, ndec>>
    /\ UNCHANGED <<auto_approve, slot, workerVars, udpVars, timeVars, latest,
                   wsVars, trace>>

\* ============================================================ approval_worker

\* line.trim().to_lowercase()
trim_lower(line) ==
    CASE line = " YES" -> "yes"
      [] line = "n"    -> "n"
      [] OTHER         -> line

\* approved = trimmed == "y" || trimmed == "yes"
approved_by(line) == trim_lower(line) \in {"y", "yes"}

\* The worker never notices an abandoned request.
is_closed_never(ch) == FALSE

\* oneshot::Sender::is_closed: the receiver was dropped.
is_closed(ch) == ch = "rx_dropped"

\* The worker task ends (print! panics when stdout cannot be written): its
\* mpsc receiver and the sender it holds are dropped, the queued requests
\* with them.
WorkerGone(ch) ==
    [c \in Callers |->
        CASE ch[c] = "open"       -> "tx_dropped"
          [] ch[c] = "rx_dropped" -> "none"
          [] OTHER                -> ch[c]]

\* The worker takes the newest request.
next_pending_last(q) == q[Len(q)]

\* rx.recv(): the oldest request in the queue.
next_pending(q) == Head(q)

\* The queue after rx.recv() took the oldest request.
rest_pending(q) == Tail(q)

\* while let Some(pending) = rx.recv().await, to the prompt (lines 77-87).
WorkerRecv ==
    /\ wpc = "recv"
    /\ queue # <<>>
    /\ LET pending == next_pending(queue) IN
        IF is_closed(chan[pending.respond]) THEN
            \* continue: the sender is dropped, nothing is printed or read
            /\ queue' = rest_pending(queue)
            /\ chan' = [chan EXCEPT ![pending.respond] = "none"]
            /\ UNCHANGED <<wpc, cur>>
        ELSE
            \E stdoutOk \in BOOLEAN :
                IF stdoutOk THEN
                    /\ queue' = rest_pending(queue)
                    /\ cur' = pending
                    /\ wpc' = "prompt"
                    /\ UNCHANGED chan
                ELSE
                    /\ queue' = <<>>
                    /\ chan' = WorkerGone(chan)
                    /\ cur' = NoPending
                    /\ wpc' = "dead"
    /\ UNCHANGED <<auto_approve, slot, sendq, call, ndec, stdin, stdin_eof,
                   typed, stale, udpVars, timeVars, latest, wsVars, trace>>

\* respond.send(approved) and the report of it (lines 99-103).
Respond(approved) ==
    LET c == cur.respond IN
    IF chan[c] = "open" THEN
        \* Ok(_): the decision is delivered, then println!
        /\ ndec' = [ndec EXCEPT ![c] = ndec[c] + 1]
        /\ \E stdoutOk \in BOOLEAN :
            IF stdoutOk THEN
                /\ chan' = [chan EXCEPT ![c] = IF approved THEN "true" ELSE "false"]
                /\ wpc' = "recv"
                /\ UNCHANGED queue
            ELSE
                /\ chan' = WorkerGone(
                       [chan EXCEPT ![c] = IF approved THEN "true" ELSE "false"])
                /\ queue' = <<>>
                /\ wpc' = "dead"
    ELSE
        \* Err(_): the receiver is gone; warn! and go on
        /\ chan' = [chan EXCEPT ![c] = "none"]
        /\ wpc' = "recv"
        /\ UNCHANGED <<queue, ndec>>

\* lines.next_line() returns Ok(Some(line)).
WorkerReadLine ==
    /\ wpc = "prompt"
    /\ stdin # <<>>
    /\ stdin' = Tail(stdin)
    /\ stale' = Len(Tail(stdin))
    /\ Respond(approved_by(Head(stdin)))
    /\ cur' = NoPending
    /\ UNCHANGED <<auto_approve, slot, sendq, call, stdin_eof, typed, udpVars,
                   timeVars, latest, wsVars, trace>>

\* lines.next_line() returns Ok(None): approved stays false.
WorkerReadEof ==
    /\ wpc = "prompt"
    /\ stdin = <<>>
    /\ stdin_eof
    /\ Respond(FALSE)
    /\ cur' = NoPending
    /\ UNCHANGED <<auto_approve, slot, sendq, call, stdin, stdin_eof, typed, stale,
                   udpVars, timeVars, latest, wsVars, trace>>

\* The operator types a line.
Type(line) ==
    /\ ~stdin_eof
    /\ typed < MaxLines
    /\ stdin' = Append(stdin, line)
    /\ typed' = typed + 1
    /\ stale' = IF wpc = "prompt" THEN stale ELSE stale + 1
    /\ UNCHANGED <<auto_approve, slot, brokerVars, wpc, cur, stdin_eof, udpVars,
                   timeVars, latest, wsVars, trace>>

\* The operator closes stdin.
CloseStdin ==
    /\ ~stdin_eof
    /\ typed < MaxLines
    /\ stdin_eof' = TRUE
    /\ typed' = typed + 1
    /\ UNCHANGED <<auto_approve, slot, brokerVars, wpc, cur, stdin, stale,
                   udpVars, timeVars, latest, wsVars, trace>>

\* ============================================================ MouseController

\* MoveCmd
MoveCmd(cw, ch, x, y) == [client_w |-> cw, client_h |-> ch, x |-> x, y |-> y]

\* SharedMove.latest is None.
NoMove == MoveCmd(0, 0, 0, 0)

\* MouseController::move_absolute: the latest-value cell afterwards.
move_absolute(cell, cw, ch, x, y) ==
    IF cw = 0 \/ ch = 0 THEN cell ELSE MoveCmd(cw, ch, x, y)

\* `as i32` of a non-negative f64: the fraction is dropped and the value
\* saturates at i32::MAX.
as_i32(num, den) ==
    IF num \div den > 2147483647 THEN 2147483647 ELSE num \div den

\* (v as f64 / client as f64 * screen) as i32 (lines 61-64), for client > 0.
scale(v, client, screen) == as_i32(v * screen, client)

\* What enigo.move_mouse is called with for a MoveCmd (lines 61-65).
Actuated(cmd) ==
    [cmd |-> cmd,
     screen_x |-> scale(cmd.x, cmd.client_w, SCREEN[1]),
     screen_y |-> scale(cmd.y, cmd.client_h, SCREEN[2])]

\* ============================================================ serve_udp

\* UdpSession
UdpSession(addr, w, h, now) ==
    [addr |-> addr, client_w |-> w, client_h |-> h, last_seen |-> now]

\* session is None.
NoSession == UdpSession(None, 0, 0, 0)

\* A datagram the server sends: the tag, the destination and the payload.
Datagram(msg, to, a, b) == [msg |-> msg, to |-> to, a |-> a, b |-> b]
ACCEPT(to) == Datagram("ACCEPT", to, SCREEN[1], SCREEN[2])
REJECT(to) == Datagram("REJECT", to, 0, 0)
BUSY(to)   == Datagram("BUSY", to, 0, 0)
PONG(to, t) == Datagram("PONG", to, t, 0)

\* What the loop handled last: a datagram of some kind from a peer, or the
\* sweep that timed a peer out.
Event(kind, from) == [kind |-> kind, from |-> from]

NoReply == Datagram("none", None, 0, 0)
NoEvent == Event("none", None)

PingTs == {7}        \* timestamps a PING carries

\* Any live session accepts a datagram, whoever sent it.
bound_any(s, addr) == s # NoSession

\* Some(s) if s.addr == addr: the session is live and bound to the sender.
bound(s, addr) == s # NoSession /\ s.addr = addr

\* A re-HELLO that refreshes last_seen and keeps the old dimensions.
on_hello_keepdims(s, addr, w, h, now) ==
    IF bound(s, addr)
    THEN [session |-> [s EXCEPT !.last_seen = now], reply |-> ACCEPT(addr)]
    ELSE [session |-> s, reply |-> BUSY(addr)]

\* A HELLO pre-empts the live session.
on_hello_preempt(s, addr, w, h, now) ==
    [session |-> UdpSession(addr, w, h, now), reply |-> ACCEPT(addr)]

\* HELLO while a session is live (lines 80-89): the session and the reply.
on_hello(s, addr, w, h, now) ==
    IF bound(s, addr)
    THEN [session |-> [s EXCEPT !.client_w = w, !.client_h = h, !.last_seen = now],
          reply |-> ACCEPT(addr)]
    ELSE [session |-> s, reply |-> BUSY(addr)]

\* An Instant is kept as its age in whole seconds, the time from it to the
\* present: Instant::now() is 0, and a second passing adds one to every
\* Instant held (ages past MaxAge are kept as MaxAge).
Now == 0

\* Instant::elapsed
elapsed(instant) == instant

\* An Instant one TICK_PERIOD later.
older(instant) ==
    IF instant + TICK_PERIOD > MaxAge THEN MaxAge ELSE instant + TICK_PERIOD

\* A sweep that times a session out at the timeout, not past it.
timed_out_at(s) == elapsed(s.last_seen) >= SESSION_TIMEOUT

\* s.last_seen.elapsed() > SESSION_TIMEOUT
timed_out(s) == elapsed(s.last_seen) > SESSION_TIMEOUT

\* MSG_HELLO of at least 5 bytes (lines 67-114), up to the approval request.
UdpHello(p, w, h) ==
    /\ upc = "select"
    /\ uevt' = Event("hello", p)
    /\ IF session # NoSession THEN
            /\ session' = on_hello(session, p, w, h, Now).session
            /\ reply' = on_hello(session, p, w, h, Now).reply
            /\ sendok' \in BOOLEAN
            /\ UNCHANGED <<slot, upc, hello>>
       ELSE IF ~try_claim(slot, p).ok THEN
            /\ reply' = BUSY(p)
            /\ sendok' \in BOOLEAN
            /\ UNCHANGED <<slot, upc, hello, session>>
       ELSE
            /\ slot' = try_claim(slot, p).slot
            /\ hello' = UdpSession(p, w, h, Now)
            /\ upc' = "claimed"
            /\ reply' = NoReply
            /\ sendok' = TRUE
            /\ UNCHANGED session
    /\ UNCHANGED <<auto_approve, brokerVars, workerVars, timeVars, latest,
                   wsVars, trace>>

\* state.broker.request_approval(addr), to its first suspension (line 96).
UdpRequestApproval ==
    /\ upc = "claimed"
    /\ request_approval(UDP, hello.addr)
    /\ upc' = "approval"
    /\ UNCHANGED <<auto_approve, slot, workerVars, hello, session, uevt, reply,
                   sendok, timeVars, latest, wsVars, trace>>

\* A denial that replies REJECT and keeps the slot.
UdpApprovalDone_keep ==
    /\ upc = "approval"
    /\ call[UDP] \in {"true", "false"}
    /\ call' = [call EXCEPT ![UDP] = "idle"]
    /\ IF call[UDP] = "false" THEN
            /\ reply' = REJECT(hello.addr)
            /\ UNCHANGED <<slot, session>>
       ELSE
            /\ session' = hello
            /\ reply' = ACCEPT(hello.addr)
            /\ UNCHANGED slot
    /\ sendok' \in BOOLEAN
    /\ upc' = "select"
    /\ hello' = NoSession
    /\ UNCHANGED <<auto_approve, queue, sendq, chan, ndec, workerVars, uevt,
                   timeVars, latest, wsVars, trace>>

\* The approval returned (lines 97-111): REJECT and release, or the session.
UdpApprovalDone ==
    /\ upc = "approval"
    /\ call[UDP] \in {"true", "false"}
    /\ call' = [call EXCEPT ![UDP] = "idle"]
    /\ IF call[UDP] = "false" THEN
            /\ slot' = release(slot)
            /\ reply' = REJECT(hello.addr)
            /\ UNCHANGED session
       ELSE
            /\ session' = hello
            /\ reply' = ACCEPT(hello.addr)
            /\ UNCHANGED slot
    /\ sendok' \in BOOLEAN
    /\ upc' = "select"
    /\ hello' = NoSession
    /\ UNCHANGED <<auto_approve, queue, sendq, chan, ndec, workerVars, uevt,
                   timeVars, latest, wsVars, trace>>

\* MSG_MOVE of at least 5 bytes (lines 115-134).
UdpMove(p, x, y) ==
    /\ upc = "select"
    /\ uevt' = Event("move", p)
    /\ reply' = NoReply
    /\ sendok' = TRUE
    /\ IF ~bound(session, p) THEN
            UNCHANGED <<session, latest>>
       ELSE
            /\ session' = [session EXCEPT !.last_seen = Now]
            /\ latest' = IF session.client_w > 0 /\ session.client_h > 0
                         THEN move_absolute(latest, session.client_w,
                                            session.client_h, x, y)
                         ELSE latest
    /\ UNCHANGED <<auto_approve, slot, brokerVars, workerVars, upc, hello,
                   timeVars, wsVars, trace>>

\* MSG_PING of at least 9 bytes (lines 135-154).
UdpPing(p, t) ==
    /\ upc = "select"
    /\ uevt' = Event("ping", p)
    /\ IF ~bound(session, p) THEN
            /\ reply' = NoReply
            /\ sendok' = TRUE
            /\ UNCHANGED session
       ELSE
            /\ session' = [session EXCEPT !.last_seen = Now]
            /\ reply' = PONG(p, t)
            /\ sendok' \in BOOLEAN
    /\ UNCHANGED <<auto_approve, slot, brokerVars, workerVars, upc, hello,
                   timeVars, latest, wsVars, trace>>

\* A sweep that releases the slot whether or not it ended a session.
Tick_release_always ==
    /\ upc = "select"
    /\ tickDue
    /\ tickDue' = FALSE
    /\ slot' = release(slot)
    /\ IF session # NoSession /\ timed_out(session) THEN
            /\ uevt' = Event("timeout", session.addr)
            /\ reply' = NoReply
            /\ sendok' = TRUE
            /\ session' = NoSession
       ELSE UNCHANGED <<uevt, reply, sendok, session>>
    /\ UNCHANGED <<auto_approve, brokerVars, workerVars, upc, hello, latest,
                   wsVars, trace>>

Tick ==
    /\ upc = "select"
    /\ tickDue
    /\ tickDue' = FALSE
    /\ IF session # NoSession /\ timed_out(session) THEN
            /\ uevt' = Event("timeout", session.addr)
            /\ reply' = NoReply
            /\ sendok' = TRUE
            /\ session' = NoSession
            /\ slot' = release(slot)
       ELSE UNCHANGED <<uevt, reply, sendok, session, slot>>
    /\ UNCHANGED <<auto_approve, brokerVars, workerVars, upc, hello, latest,
                   wsVars, trace>>

\* One period of the interval passes.
Advance ==
    /\ tickDue' = TRUE
    /\ session' = IF session = NoSession THEN session
                  ELSE [session EXCEPT !.last_seen = older(@)]
    /\ hello' = IF hello = NoSession THEN hello
                ELSE [hello EXCEPT !.last_seen = older(@)]
    /\ UNCHANGED <<auto_approve, slot, brokerVars, workerVars, upc, uevt, reply,
                   sendok, latest, wsVars, trace>>

\* recv_from returns Err (lines 51-57): warn! and the loop goes round.
UdpRecvError ==
    /\ upc = "select"
    /\ uevt' = Event("recv_error", None)
    /\ reply' = NoReply
    /\ sendok' = TRUE
    /\ UNCHANGED <<auto_approve, slot, brokerVars, workerVars, upc, hello,
                   session, timeVars, latest, wsVars, trace>>

\* A datagram that is empty, too short for its tag or of an unknown tag
\* (lines 59-61, 68, 116, 136, 155): the loop goes round.
UdpIgnored(p) ==
    /\ upc = "select"
    /\ uevt' = Event("other", p)
    /\ reply' = NoReply
    /\ sendok' = TRUE
    /\ UNCHANGED <<auto_approve, slot, brokerVars, workerVars, upc, hello,
                   session, timeVars, latest, wsVars, trace>>

\* ============================================================ handle_socket

\* ClientCtx
ClientCtx(w, h) == [width |-> w, height |-> h]

\* An upgrade that releases the slot when its claim failed.
WsUpgrade_release(k, addr) ==
    /\ pc[k] = "idle"
    /\ \A j \in Conns : j < k => pc[j] # "idle"
    /\ IF ~try_claim(slot, addr).ok THEN
            /\ wsout' = [wsout EXCEPT ![k] = "Already connected"]
            /\ pc' = [pc EXCEPT ![k] = "closed"]
            /\ slot' = release(slot)
            /\ UNCHANGED waddr
       ELSE
            /\ slot' = try_claim(slot, addr).slot
            /\ waddr' = [waddr EXCEPT ![k] = addr]
            /\ pc' = [pc EXCEPT ![k] = "claimed"]
            /\ UNCHANGED wsout
    /\ UNCHANGED <<auto_approve, brokerVars, workerVars, udpVars, timeVars,
                   latest, ctx, trace>>

\* The upgrade and try_claim (lines 68-73). A new connection's task takes the
\* lowest free number.
WsUpgrade(k, addr) ==
    /\ pc[k] = "idle"
    /\ \A j \in Conns : j < k => pc[j] # "idle"
    /\ IF ~try_claim(slot, addr).ok THEN
            /\ wsout' = [wsout EXCEPT ![k] = "Already connected"]
            /\ pc' = [pc EXCEPT ![k] = "closed"]
            /\ UNCHANGED <<slot, waddr>>
       ELSE
            /\ slot' = try_claim(slot, addr).slot
            /\ waddr' = [waddr EXCEPT ![k] = addr]
            /\ pc' = [pc EXCEPT ![k] = "claimed"]
            /\ UNCHANGED wsout
    /\ UNCHANGED <<auto_approve, brokerVars, workerVars, udpVars, timeVars,
                   latest, ctx, trace>>

\* state.broker.request_approval(addr), to its first suspension (line 75).
WsRequestApproval(k) ==
    /\ pc[k] = "claimed"
    /\ request_approval(k, waddr[k])
    /\ pc' = [pc EXCEPT ![k] = "approval"]
    /\ UNCHANGED <<auto_approve, slot, workerVars, udpVars, timeVars, latest,
                   waddr, ctx, wsout, trace>>

\* A handler that goes on to "connected" whatever the decision was.
WsApprovalDone_admit(k) ==
    /\ pc[k] = "approval"
    /\ call[k] \in {"true", "false"}
    /\ call' = [call EXCEPT ![k] = "idle"]
    /\ wsout' = [wsout EXCEPT ![k] = "connected"]
    /\ pc' = [pc EXCEPT ![k] = "connected"]
    /\ UNCHANGED <<auto_approve, slot, queue, sendq, chan, ndec, workerVars,
                   udpVars, timeVars, latest, waddr, ctx, trace>>

\* The approval returned (lines 76-86): "rejected", or "connected".
WsApprovalDone(k) ==
    /\ pc[k] = "approval"
    /\ call[k] \in {"true", "false"}
    /\ call' = [call EXCEPT ![k] = "idle"]
    /\ IF call[k] = "false" THEN
            \* send_one's result is dropped; release comes next
            /\ wsout' = [wsout EXCEPT ![k] = "rejected"]
            /\ pc' = [pc EXCEPT ![k] = "release"]
       ELSE
            \E sent \in BOOLEAN :
                IF sent THEN
                    /\ wsout' = [wsout EXCEPT ![k] = "connected"]
                    /\ pc' = [pc EXCEPT ![k] = "connected"]
                ELSE
                    /\ pc' = [pc EXCEPT ![k] = "release"]
                    /\ UNCHANGED wsout
    /\ UNCHANGED <<auto_approve, slot, queue, sendq, chan, ndec, workerVars,
                   udpVars, timeVars, latest, waddr, ctx, trace>>

\* ClientCtx::default() and the remote_screen message (lines 89-100).
WsSendScreen(k) ==
    /\ pc[k] = "connected"
    /\ \E sent \in BOOLEAN :
        IF sent THEN
            /\ wsout' = [wsout EXCEPT ![k] = "remote_screen"]
            /\ ctx' = [ctx EXCEPT ![k] = ClientCtx(0, 0)]
            /\ pc' = [pc EXCEPT ![k] = "open"]
        ELSE
            /\ pc' = [pc EXCEPT ![k] = "release"]
            /\ UNCHANGED <<wsout, ctx>>
    /\ UNCHANGED <<auto_approve, slot, brokerVars, workerVars, udpVars,
                   timeVars, latest, waddr, trace>>

\* A text message of kind "init" (lines 105-112).
WsInit(k, w, h) ==
    /\ pc[k] = "open"
    /\ ctx' = [ctx EXCEPT ![k] = ClientCtx(w, h)]
    /\ UNCHANGED <<auto_approve, slot, brokerVars, workerVars, udpVars,
                   timeVars, latest, pc, waddr, wsout, trace>>

\* A text message of kind "ping" (lines 115-122).
WsPing(k) ==
    /\ pc[k] = "open"
    /\ \E sent \in BOOLEAN :
        IF sent THEN
            /\ wsout' = [wsout EXCEPT ![k] = "pong"]
            /\ UNCHANGED pc
        ELSE
            /\ pc' = [pc EXCEPT ![k] = "release"]
            /\ UNCHANGED wsout
    /\ UNCHANGED <<auto_approve, slot, brokerVars, workerVars, udpVars,
                   timeVars, latest, waddr, ctx, trace>>

\* A binary message of at least 4 bytes (lines 124-132).
WsBinary(k, x, y) ==
    /\ pc[k] = "open"
    /\ latest' = IF ctx[k].width > 0 /\ ctx[k].height > 0
                 THEN move_absolute(latest, ctx[k].width, ctx[k].height, x, y)
                 ELSE latest
    /\ UNCHANGED <<auto_approve, slot, brokerVars, workerVars, udpVars,
                   timeVars, wsVars, trace>>

\* A loop exit that returns without releasing the slot.
WsClose_leak(k) ==
    /\ pc[k] = "open"
    /\ pc' = [pc EXCEPT ![k] = "idle"]
    /\ waddr' = [waddr EXCEPT ![k] = None]
    /\ ctx' = [ctx EXCEPT ![k] = ClientCtx(0, 0)]
    /\ wsout' = [wsout EXCEPT ![k] = None]
    /\ UNCHANGED <<auto_approve, slot, brokerVars, workerVars, udpVars,
                   timeVars, latest, trace>>

\* A close frame, a transport error or the end of the stream (lines 102,
\* 133-138): the loop ends.
WsClose(k) ==
    /\ pc[k] = "open"
    /\ pc' = [pc EXCEPT ![k] = "release"]
    /\ UNCHANGED <<auto_approve, slot, brokerVars, workerVars, udpVars,
                   timeVars, latest, waddr, ctx, wsout, trace>>

\* slot.release().await, and the handler returns (lines 78, 84, 97, 142):
\* the task is gone, its stream, addr and ctx with it.
WsRelease(k) ==
    /\ pc[k] = "release"
    /\ slot' = release(slot)
    /\ pc' = [pc EXCEPT ![k] = "idle"]
    /\ waddr' = [waddr EXCEPT ![k] = None]
    /\ ctx' = [ctx EXCEPT ![k] = ClientCtx(0, 0)]
    /\ wsout' = [wsout EXCEPT ![k] = None]
    /\ UNCHANGED <<auto_approve, brokerVars, workerVars, udpVars, timeVars,
                   latest, trace>>

\* The task of a turned-away upgrade is gone; the next upgrade gets a fresh
\* one.
WsGone(k) ==
    /\ pc[k] = "closed"
    /\ pc' = [pc EXCEPT ![k] = "idle"]
    /\ wsout' = [wsout EXCEPT ![k] = None]
    /\ UNCHANGED <<auto_approve, slot, brokerVars, workerVars, udpVars,
                   timeVars, latest, waddr, ctx, trace>>

\* ============================================================ the program

\* main: ConnectionSlot::new(), ApprovalBroker::new(settings.auto_approve),
\* the worker spawned, the listeners started.
Init ==
    /\ auto_approve \in BOOLEAN
    /\ slot = None
    /\ queue = <<>>
    /\ sendq = <<>>
    /\ chan = [c \in Callers |-> "none"]
    /\ call = [c \in Callers |-> "idle"]
    /\ ndec = [c \in Callers |-> 0]
    /\ wpc = "recv"
    /\ cur = NoPending
    /\ stdin = <<>>
    /\ stdin_eof = FALSE
    /\ typed = 0
    /\ stale = 0
    /\ upc = "select"
    /\ hello = NoSession
    /\ session = NoSession
    /\ tickDue = TRUE
    /\ uevt = NoEvent
    /\ reply = NoReply
    /\ sendok = TRUE
    /\ latest = NoMove
    /\ pc = [k \in Conns |-> "idle"]
    /\ waddr = [k \in Conns |-> None]
    /\ ctx = [k \in Conns |-> ClientCtx(0, 0)]
    /\ wsout = [k \in Conns |-> None]
    /\ trace = <<>>

Worker ==
    \/ WorkerRecv
    \/ WorkerReadLine
    \/ WorkerReadEof
    \/ \E line \in Lines : Type(line)
    \/ CloseStdin

UdpListener ==
    \/ \E p \in Peers, d \in Dims : UdpHello(p, d[1], d[2])
    \/ UdpRequestApproval
    \/ UdpApprovalDone
    \/ \E p \in Peers, xy \in Points : UdpMove(p, xy[1], xy[2])
    \/ \E p \in Peers, t \in PingTs : UdpPing(p, t)
    \/ \E p \in Peers : UdpIgnored(p)
    \/ UdpRecvError
    \/ Tick
    \/ Advance

WsHandlers ==
    \E k \in Conns :
        \/ \E addr \in Peers : WsUpgrade(k, addr)
        \/ WsRequestApproval(k)
        \/ WsApprovalDone(k)
        \/ WsSendScreen(k)
        \/ \E d \in Dims : WsInit(k, d[1], d[2])
        \/ WsPing(k)
        \/ \E xy \in Points : WsBinary(k, xy[1], xy[2])
        \/ WsClose(k)
        \/ WsRelease(k)
        \/ WsGone(k)

Next ==
    \/ UdpListener
    \/ WsHandlers
    \/ \E c \in {UDP} \cup Conns : PollApproval(c)
    \/ Worker

Spec == Init /\ [][Next]_vars

\* The interval keeps firing and select! takes a ready tick arm in the end.
FairSpec == Spec /\ WF_vars(Tick) /\ WF_vars(Advance)

\* ============================================================ harnesses
\* ConnectionSlot and ApprovalBroker are constructed on their own and driven
\* by arbitrary callers, as a test of the component would.

\* One call on the slot and what it returned.
SlotCall(op, arg, ret, before, after) ==
    [op |-> op, arg |-> arg, ret |-> ret, before |-> before, after |-> after]

\* slot.try_claim(addr).await
SlotTryClaim(addr) ==
    /\ Len(trace) < MaxOps
    /\ slot' = try_claim(slot, addr).slot
    /\ trace' = Append(trace, SlotCall("try_claim", addr, try_claim(slot, addr).ok,
                                       slot, try_claim(slot, addr).slot))
    /\ UNCHANGED <<auto_approve, brokerVars, workerVars, udpVars, timeVars,
                   latest, wsVars>>

\* slot.release().await
SlotRelease ==
    /\ Len(trace) < MaxOps
    /\ slot' = release(slot)
    /\ trace' = Append(trace, SlotCall("release", None, TRUE, slot, release(slot)))
    /\ UNCHANGED <<auto_approve, brokerVars, workerVars, udpVars, timeVars,
                   latest, wsVars>>

NextSlot ==
    \/ \E addr \in Peers : SlotTryClaim(addr)
    \/ SlotRelease

SpecSlot == Init /\ [][NextSlot]_vars

\* Client dimensions and coordinates the mouse harness passes.
MouseDims == {<<0, 0>>, <<3, 7>>, <<1000, 2000>>}
MouseXs == {0, 1, 2, 3, 500, 1000}
MouseYs == {0, 1, 2, 7, 1000, 2000}

\* mouse.move_absolute(cw, ch, x, y)
MouseMove(cw, ch, x, y) ==
    /\ latest' = move_absolute(latest, cw, ch, x, y)
    /\ UNCHANGED <<auto_approve, slot, brokerVars, workerVars, udpVars,
                   timeVars, wsVars, trace>>

\* The worker thread wakes with a command in the cell, takes it and moves
\* the pointer (lines 52-66).
MouseWorker ==
    /\ latest # NoMove
    /\ latest' = NoMove
    /\ trace' = <<Actuated(latest)>>
    /\ UNCHANGED <<auto_approve, slot, brokerVars, workerVars, udpVars,
                   timeVars, wsVars>>

NextMouse ==
    \/ \E d \in MouseDims, x \in MouseXs, y \in MouseYs :
            MouseMove(d[1], d[2], x, y)
    \/ MouseWorker

SpecMouse == Init /\ [][NextMouse]_vars

\* The peer task c asks approval for.
TaskPeer(c) == IF c % 2 = 1 THEN "A" ELSE "B"

\* Task c calls broker.request_approval(ip).await; tasks are numbered in the
\* order of their calls.
TaskCall(c) ==
    /\ \A d \in Tasks : d < c => call[d] # "idle"
    /\ request_approval(c, TaskPeer(c))
    /\ UNCHANGED <<auto_approve, slot, workerVars, udpVars, timeVars, latest,
                   wsVars, trace>>

\* Task c drops its request_approval future before it returned: the oneshot
\* receiver goes with it, or the request that was waiting for a permit.
TaskCancel(c) ==
    /\ call[c] \in {"sending", "waiting"}
    /\ Cardinality({d \in Tasks : call[d] = "cancelled"}) < MaxAbandon
    /\ call' = [call EXCEPT ![c] = "cancelled"]
    /\ IF call[c] = "sending" THEN
            /\ sendq' = SelectSeq(sendq, LAMBDA p : p.respond # c)
            /\ UNCHANGED chan
       ELSE
            /\ chan' = [chan EXCEPT ![c] = IF @ = "open" THEN "rx_dropped" ELSE "none"]
            /\ UNCHANGED sendq
    /\ UNCHANGED <<auto_approve, slot, queue, ndec, workerVars, udpVars,
                   timeVars, latest, wsVars, trace>>

\* The harness polls task c's future; it collects the results of the tasks
\* in the order of their numbers.
TaskPoll(c) ==
    /\ call[c] = "waiting" => \A d \in Tasks : d < c => call[d] # "waiting"
    /\ PollApproval(c)

NextBroker ==
    \/ \E c \in Tasks : TaskCall(c)
    \/ \E c \in Tasks : TaskPoll(c)
    \/ Worker

SpecBroker == Init /\ [][NextBroker]_vars

NextCancel ==
    \/ \E c \in 1..MaxWaiters : TaskCall(c)
    \/ \E c \in Tasks : TaskPoll(c)
    \/ Worker
    \/ \E c \in Tasks : TaskCancel(c)

SpecCancel == Init /\ [][NextCancel]_vars

\* ============================================================ properties

\* The UDP listener is between its successful try_claim and its release.
UdpHolds == upc \in {"claimed", "approval"} \/ session # NoSession

\* handle_socket of connection k is between its successful try_claim and its
\* release.
WsHolds(k) == pc[k] \in {"claimed", "approval", "connected", "open", "release"}

Holders == (IF UdpHolds THEN {UDP} ELSE {}) \cup {k \in Conns : WsHolds(k)}

\* A step in which connection k runs try_claim.
WsClaims(k) == pc[k] = "idle" /\ pc'[k] # "idle"

\* A step in which the UDP listener runs try_claim for peer p.
UdpClaims(p) ==
    /\ session = NoSession
    /\ \E d \in Dims : UdpHello(p, d[1], d[2])

\* C1: at most one session holds the ConnectionSlot at any time, and the slot
\* is occupied while one does; a try_claim, from either transport, wins when
\* the slot is empty and only then, and the loser is told BUSY or
\* "Already connected" and changes nothing.
C1_OneHolder ==
    /\ [](Cardinality(Holders) <= 1 /\ (Holders # {} => slot # None))
    /\ [][/\ \A k \in Conns : WsClaims(k) =>
                IF slot = None
                THEN pc'[k] = "claimed" /\ slot' = waddr'[k] /\ slot' # None
                ELSE /\ pc'[k] = "closed"
                     /\ wsout'[k] = "Already connected"
                     /\ slot' = slot
          /\ \A p \in Peers : UdpClaims(p) =>
                IF slot = None
                THEN upc' = "claimed" /\ slot' = p
                ELSE reply' = BUSY(p) /\ upc' = "select" /\ slot' = slot
       ]_vars

\* C1 witness: a WebSocket upgrade lost the race to the UDP listener, which
\* holds the slot.
C1_Witness ==
    /\ UdpHolds
    /\ \E k \in Conns : pc[k] = "closed" /\ wsout[k] = "Already connected"

\* The calls of the trace between the i-th and the j-th hold no release.
NoReleaseBetween(i, j) ==
    \A m \in (i + 1)..(j - 1) : trace[m].op # "release"

\* C2: try_claim returns true and records the peer iff the slot was empty,
\* and otherwise returns false and leaves the occupant; after a successful
\* try_claim every try_claim fails until release is called.
C2_TryClaim ==
    /\ \A i \in 1..Len(trace) : trace[i].op = "try_claim" =>
        /\ trace[i].ret <=> trace[i].before = None
        /\ trace[i].ret => trace[i].after = trace[i].arg
        /\ ~trace[i].ret => trace[i].after = trace[i].before
    /\ \A i, j \in 1..Len(trace) :
        (/\ i < j
         /\ trace[i].op = "try_claim" /\ trace[i].ret
         /\ trace[j].op = "try_claim"
         /\ NoReleaseBetween(i, j)) => ~trace[j].ret

\* C2 witness: a claim succeeded, then one by the same peer and one by another
\* peer failed with no release in between.
C2_Witness ==
    /\ Len(trace) >= 3
    /\ trace[1].op = "try_claim" /\ trace[1].ret
    /\ trace[2].op = "try_claim" /\ trace[2].arg = trace[1].arg /\ ~trace[2].ret
    /\ trace[3].op = "try_claim" /\ trace[3].arg # trace[1].arg /\ ~trace[3].ret

\* C10: release empties the slot whatever it held and succeeds; on an empty
\* slot it leaves the slot empty, and a second release in a row changes
\* nothing.
C10_ReleaseIdempotent ==
    \A i \in 1..Len(trace) : trace[i].op = "release" =>
        /\ trace[i].ret
        /\ trace[i].after = None
        /\ (i > 1 /\ trace[i - 1].op = "release") =>
                trace[i].after = trace[i - 1].after

\* C10 witness: a release of an occupied slot, then a release of the empty
\* slot.
C10_Witness ==
    /\ Len(trace) >= 3
    /\ trace[1].op = "try_claim" /\ trace[1].ret
    /\ trace[2].op = "release" /\ trace[2].before # None
    /\ trace[3].op = "release" /\ trace[3].before = None

\* C4: a HELLO from a peer other than the one a live UDP session is bound to
\* is answered BUSY and changes neither the session (address, width, height,
\* last-activity time) nor the slot, and issues no approval request.
C4_HelloOtherPeer ==
    [][\A p \in Peers, d \in Dims :
        (/\ session # NoSession
         /\ session.addr # p
         /\ UdpHello(p, d[1], d[2]))
        => /\ reply' = BUSY(p)
           /\ session' = session
           /\ slot' = slot
           /\ UNCHANGED <<brokerVars, upc, hello>>
      ]_vars

\* C4 witness: the loop has just answered BUSY to a HELLO from a peer the
\* live session is not bound to.
C4_Witness ==
    /\ session # NoSession
    /\ uevt.kind = "hello"
    /\ uevt.from # session.addr
    /\ reply = BUSY(uevt.from)

\* C5: a MOVE or PING from a peer the session is not bound to, or with no
\* session, produces no reply and no move_absolute, and changes neither the
\* session nor the slot.
C5_MovePingIgnored ==
    [][\A p \in Peers :
        (/\ session = NoSession \/ session.addr # p
         /\ \/ \E xy \in Points : UdpMove(p, xy[1], xy[2])
            \/ \E t \in PingTs : UdpPing(p, t))
        => /\ reply' = NoReply
           /\ latest' = latest
           /\ session' = session
           /\ slot' = slot
      ]_vars

\* C5 witness: the loop has just handled a MOVE or PING from a peer the live
\* session is not bound to, and sent nothing.
C5_Witness ==
    /\ session # NoSession
    /\ uevt.kind \in {"move", "ping"}
    /\ uevt.from # session.addr
    /\ reply = NoReply

\* The worker has taken task d's request from the queue and prompted for it.
Taken(d) == ndec[d] = 1 \/ (cur # NoPending /\ cur.respond = d)

\* C6: with the consumer running, requests are resolved in the order they
\* were enqueued (the order of the tasks' numbers), one at a time: when the
\* consumer has taken a request every earlier one has its decision, and no
\* request gets two.
C6_InOrderOnce ==
    /\ \A c \in Tasks : ndec[c] <= 1
    /\ \A c \in Tasks : ndec[c] = 1 =>
            chan[c] \in {"true", "false"} \/ call[c] \in {"true", "false"}
    /\ \A c, d \in Tasks : (c < d /\ Taken(d)) => ndec[c] = 1

\* C6 witness: three requests queued together were decided and the fourth is
\* with the operator.
C6_Witness ==
    /\ ~auto_approve
    /\ ndec[1] = 1 /\ ndec[2] = 1 /\ ndec[3] = 1
    /\ cur # NoPending /\ cur.respond = 4
    /\ call[3] = "waiting"

\* C7: a request whose receiver was dropped is skipped when the consumer
\* dequeues it (no prompt, no line read, the consumer stays ready for the
\* next request), and one dropped during the prompt costs the consumer only
\* the failed send: it neither ends the consumer nor delivers anything, and
\* the queue behind it is kept.
C7_AbandonedSkipped ==
    [][/\ (/\ wpc = "recv"
           /\ Len(queue') < Len(queue)
           /\ chan[Head(queue).respond] = "rx_dropped")
          => /\ wpc' = "recv"
             /\ cur' = NoPending
             /\ queue' = Tail(queue)
             /\ stdin' = stdin
             /\ ndec' = ndec
       /\ (/\ wpc = "prompt"
           /\ wpc' # "prompt"
           /\ chan[cur.respond] = "rx_dropped")
          => /\ wpc' = "recv"
             /\ cur' = NoPending
             /\ queue' = queue
             /\ ndec' = ndec
      ]_vars

\* C7 witness: a task dropped its request undecided, and the consumer has
\* since decided the request queued behind it.
C7_Witness ==
    \E c, d \in Tasks :
        /\ c < d
        /\ call[c] = "cancelled"
        /\ ndec[c] = 0
        /\ ndec[d] = 1

\* C8: with auto-approve off, a request_approval that cannot enqueue, the
\* queue being closed or holding CHANNEL_CAP requests, returns false at once.
C8_EnqueueFailureDenies ==
    [][\A c \in Tasks :
        (/\ ~auto_approve
         /\ call[c] = "idle"
         /\ call'[c] # "idle"
         /\ wpc = "dead" \/ Len(queue) >= CHANNEL_CAP)
        => call'[c] = "false"
      ]_vars

\* C9: in auto-approve mode every request_approval returns true and nothing
\* reaches the queue or the consumer.
C9_AutoApprove ==
    auto_approve =>
        /\ queue = <<>>
        /\ sendq = <<>>
        /\ \A c \in Callers : call[c] \in {"idle", "true"} /\ chan[c] = "none"
        /\ wpc = "recv"
        /\ cur = NoPending

\* C9 witness: every task has called, in auto-approve mode.
C9_Witness == auto_approve /\ \A c \in Tasks : call[c] = "true"

\* The session's bound peer has been silent for more than SESSION_TIMEOUT.
Stale == session # NoSession /\ session.last_seen > SESSION_TIMEOUT

\* A HELLO from p is the first event the loop handles after a sweep timed a
\* session out.
HelloAfterTimeout(p) ==
    /\ uevt.kind = "timeout"
    /\ \E d \in Dims : UdpHello(p, d[1], d[2])

\* C3 as claimed: after the sweep destroyed a session, the next HELLO from a
\* different peer claims the slot.
C3_NextHelloClaims ==
    [][\A p \in Peers : (HelloAfterTimeout(p) /\ p # uevt.from) => upc' = "claimed"
      ]_vars

\* C3, amended: a session silent for more than SESSION_TIMEOUT is destroyed by
\* the sweep in the end (unless its peer is heard again first); a session ends
\* only so, and the slot is released in the same step; the next HELLO then
\* claims the slot if no WebSocket handler claimed it in between, and is
\* answered BUSY if one did; with auto-approve a claimed HELLO is answered
\* ACCEPT.
C3_TimeoutReleases ==
    /\ Stale ~> ~Stale
    /\ [][/\ (session # NoSession /\ session' = NoSession)
             => /\ session.last_seen > SESSION_TIMEOUT
                /\ slot' = None
                /\ uevt' = Event("timeout", session.addr)
          /\ \A p \in Peers : HelloAfterTimeout(p) =>
                IF \E k \in Conns : WsHolds(k)
                THEN reply' = BUSY(p) /\ upc' = "select" /\ slot' = slot
                ELSE upc' = "claimed" /\ slot' = p
          /\ (auto_approve /\ upc = "approval" /\ upc' = "select")
             => reply' = ACCEPT(hello.addr) /\ session'.addr = hello.addr
       ]_vars

\* C3 witness: the sweep has just timed a session out and the slot is empty.
C3_Witness ==
    /\ uevt.kind = "timeout"
    /\ session = NoSession
    /\ slot = None

\* C11: a WebSocket handler whose approval was denied sends "rejected" and
\* goes straight to its release; a handler that sent "rejected" is never in
\* the message loop and queues no move, and its return leaves the slot empty
\* and the handler no longer holding it.
C11_WsDenied ==
    /\ [](\A k \in Conns : wsout[k] = "rejected" => pc[k] = "release")
    /\ [][\A k \in Conns :
            /\ (pc[k] = "approval" /\ call[k] = "false" /\ pc'[k] # "approval")
               => /\ wsout'[k] = "rejected"
                  /\ pc'[k] = "release"
                  /\ slot' = slot
                  /\ latest' = latest
            /\ (wsout[k] = "rejected" /\ pc'[k] # pc[k])
               => /\ slot = waddr[k]
                  /\ slot' = None
                  /\ pc'[k] = "idle"
                  /\ latest' = latest
       ]_vars

\* C11 witness: a denied handler has sent "rejected" and still holds the slot
\* it is about to release.
C11_Witness ==
    \E k \in Conns :
        /\ ~auto_approve
        /\ pc[k] = "release"
        /\ wsout[k] = "rejected"
        /\ slot = waddr[k]

\* C12: a WebSocket handler that claimed the slot stops holding it only by
\* its release step, which empties the slot it occupied and ends the handler;
\* while it holds, the slot does not change; every way out of the approval,
\* of the two greeting sends and of the message loop leads to that release.
C12_WsReleasesOnce ==
    [][\A k \in Conns :
        /\ (WsHolds(k) /\ ~WsHolds(k)')
           => /\ pc[k] = "release"
              /\ slot = waddr[k]
              /\ slot' = None
              /\ pc'[k] = "idle"
        /\ (WsHolds(k) /\ WsHolds(k)') => slot' = slot
        /\ (pc[k] = "approval" /\ pc'[k] # "approval")
           => pc'[k] \in {"connected", "release"}
        /\ (pc[k] = "connected" /\ pc'[k] # "connected")
           => pc'[k] \in {"open", "release"}
        /\ (pc[k] = "open" /\ pc'[k] # "open") => pc'[k] = "release"
      ]_vars

\* C12 witness: a handler claimed the slot, reached the message loop, queued
\* a move and has returned: no handler is alive, the slot is empty, and the
\* UDP listener has handled nothing.
C12_Witness ==
    /\ latest # NoMove
    /\ uevt = NoEvent
    /\ \A k \in Conns : pc[k] = "idle"
    /\ slot = None

\* C13: an upgrade whose try_claim fails is sent "Already connected" and
\* closed; it changes neither the slot nor the UDP session, issues no
\* approval request and, when its task goes, still touches none of them.
C13_WsClaimFails ==
    [][\A k \in Conns :
        /\ (WsClaims(k) /\ slot # None)
           => /\ pc'[k] = "closed"
              /\ wsout'[k] = "Already connected"
              /\ UNCHANGED <<slot, session, hello, upc, brokerVars, latest>>
        /\ (pc[k] = "closed" /\ pc'[k] # "closed")
           => /\ pc'[k] = "idle"
              /\ UNCHANGED <<slot, session, hello, upc, brokerVars, latest>>
      ]_vars

\* C13 witness: an upgrade was turned away while a UDP session is live and
\* occupies the slot.
C13_Witness ==
    \E k \in Conns :
        /\ pc[k] = "closed"
        /\ wsout[k] = "Already connected"
        /\ session # NoSession
        /\ slot = session.addr

\* C14: when the approval of a UDP HELLO that claimed the slot is denied, the
\* listener replies REJECT to that peer, empties the slot it held and creates
\* no session; while that REJECT is the last reply there is no session, and a
\* MOVE or PING from the rejected peer sends nothing, queues no move and
\* changes neither the session nor the slot.
C14_UdpDenied ==
    /\ [](reply.msg = "REJECT" => session = NoSession /\ upc = "select")
    /\ [][/\ (upc = "approval" /\ call[UDP] = "false" /\ upc' # "approval")
             => /\ reply' = REJECT(hello.addr)
                /\ slot = hello.addr
                /\ slot' = None
                /\ session = NoSession
                /\ session' = NoSession
                /\ upc' = "select"
          /\ \A p \in Peers :
                (/\ reply = REJECT(p)
                 /\ \/ \E xy \in Points : UdpMove(p, xy[1], xy[2])
                    \/ \E t \in PingTs : UdpPing(p, t))
                => /\ reply' = NoReply
                   /\ latest' = latest
                   /\ session' = NoSession
                   /\ slot' = slot
       ]_vars

\* C14 witness: the listener has just answered REJECT; the slot is empty and
\* there is no session.
C14_Witness ==
    /\ ~auto_approve
    /\ reply.msg = "REJECT"
    /\ uevt = Event("hello", reply.to)
    /\ slot = None
    /\ session = NoSession

\* A request_approval future that has not returned yet.
Pending(c) == call[c] \in {"sending", "waiting"}

\* C15: a pending approval blocks neither event loop: while the decision for
\* a UDP HELLO is pending the UDP listener can handle a HELLO from any peer
\* and can take a tick that is due, and while the decision for a WebSocket
\* connection is pending a new upgrade can be served.
C15_ApprovalNonBlocking ==
    /\ (upc = "approval" /\ Pending(UDP))
       => /\ \A p \in Peers, d \in Dims : ENABLED UdpHello(p, d[1], d[2])
          /\ tickDue => ENABLED Tick
    /\ \A k \in Conns : (pc[k] = "approval" /\ Pending(k))
       => \A j \in Conns, addr \in Peers :
            (pc[j] = "idle" /\ \A i \in Conns : i < j => pc[i] # "idle")
            => ENABLED WsUpgrade(j, addr)

\* A step of the UDP listener whose send_to of an ACCEPT or a PONG failed.
UdpSendFailed ==
    /\ \/ UdpApprovalDone
       \/ \E p \in Peers, d \in Dims : UdpHello(p, d[1], d[2])
       \/ \E p \in Peers, t \in PingTs : UdpPing(p, t)
    /\ reply'.msg \in {"ACCEPT", "PONG"}
    /\ ~sendok'

\* C16: a failed send or receive on the active session's transport tears the
\* session down and releases the slot, and the listener keeps running: after
\* a failed send of ACCEPT or PONG, or a recv error while a session is live,
\* the UDP listener has no session and the slot is empty; a WebSocket handler
\* that stops holding the slot leaves it empty.
C16_IoErrorTeardown ==
    [][/\ (UdpSendFailed \/ (UdpRecvError /\ session # NoSession))
          => /\ session' = NoSession
             /\ slot' = None
             /\ upc' = "select"
       /\ \A k \in Conns : (WsHolds(k) /\ ~WsHolds(k)') => slot' = None
      ]_vars

\* C17: a HELLO{w,h} from the peer a live session is bound to refreshes it:
\* the session stays bound to that peer, takes w and h, its last-activity
\* time becomes now, the reply is ACCEPT with the screen size, and the slot,
\* the approval queue and the listener's position are unchanged; the same
\* HELLO again leaves the session as it is, apart from the last-activity
\* time.
C17_ReHello ==
    /\ [](\A p \in Peers, d \in Dims : bound(session, p) =>
            LET once  == on_hello(session, p, d[1], d[2], Now).session
                twice == on_hello(once, p, d[1], d[2], Now).session
                later == on_hello([once EXCEPT !.last_seen = older(@)],
                                  p, d[1], d[2], Now).session
            IN  /\ once = UdpSession(p, d[1], d[2], Now)
                /\ twice = once
                /\ later = once)
    /\ [][\A p \in Peers, d \in Dims :
            (bound(session, p) /\ UdpHello(p, d[1], d[2]))
            => /\ session' = UdpSession(p, d[1], d[2], Now)
               /\ reply' = Datagram("ACCEPT", p, SCREEN[1], SCREEN[2])
               /\ slot' = slot
               /\ slot = p
               /\ UNCHANGED <<brokerVars, upc, hello>>
       ]_vars

\* C17 witness: the session's peer moved the pointer under one set of
\* dimensions (the operator's one approval went to this session, so the move
\* is its own) and its HELLO with other dimensions has just been answered
\* ACCEPT.
C17_Witness ==
    /\ ~auto_approve
    /\ session # NoSession
    /\ latest # NoMove
    /\ session.client_w # latest.client_w
    /\ uevt = Event("hello", session.addr)
    /\ reply = ACCEPT(session.addr)
    /\ session.last_seen = Now

\* C18: every pointer position actuated is the client position scaled to the
\* screen and rounded to the nearest integer; (0,0) goes to (0,0), the client
\* bounds go to the screen bounds, and (500,1000) on a 1000x2000 client goes
\* to (960,540) on the 1920x1080 screen.
C18_RoundedMapping ==
    trace # <<>> =>
        LET a == trace[1]
            scale_round(v, client, screen) ==
                (2 * v * screen + client) \div (2 * client)
        IN
        /\ a.cmd.client_w > 0 /\ a.cmd.client_h > 0
        /\ a.screen_x = scale_round(a.cmd.x, a.cmd.client_w, SCREEN[1])
        /\ a.screen_y = scale_round(a.cmd.y, a.cmd.client_h, SCREEN[2])
        /\ (a.cmd.x = 0 /\ a.cmd.y = 0) => (a.screen_x = 0 /\ a.screen_y = 0)
        /\ (a.cmd.x = a.cmd.client_w /\ a.cmd.y = a.cmd.client_h)
           => (a.screen_x = SCREEN[1] /\ a.screen_y = SCREEN[2])
        /\ a.cmd = MoveCmd(1000, 2000, 500, 1000)
           => (a.screen_x = 960 /\ a.screen_y = 540)

\* A step in which handle_socket of connection k calls slot.release().
WsReleases(k) == pc[k] = "release" /\ pc'[k] # "release"

\* A step in which the UDP listener calls slot.release() on a denial.
UdpDenialReleases == upc = "approval" /\ upc' = "select" /\ session' = NoSession

\* A step in which the UDP listener's sweep ends the session and calls
\* slot.release().
UdpSweepReleases == session # NoSession /\ session' = NoSession

\* C19: while a UDP session is live the slot is occupied by the session's
\* peer, and no step empties or changes the slot while the session stays
\* live; release is called only by the one task that holds the slot through
\* its own successful try_claim, and the slot is emptied by such a call only.
C19_SessionOwnsSlot ==
    /\ [](session # NoSession => slot = session.addr)
    /\ [][/\ (session # NoSession /\ session' # NoSession) => slot' = slot
          /\ \A k \in Conns : WsReleases(k)
                => Holders = {k} /\ slot = waddr[k]
          /\ UdpDenialReleases => Holders = {UDP} /\ slot = hello.addr
          /\ UdpSweepReleases => Holders = {UDP} /\ slot = session.addr
          /\ (slot # None /\ slot' = None)
                => \/ \E k \in Conns : WsReleases(k)
                   \/ UdpDenialReleases
                   \/ UdpSweepReleases
       ]_vars

\* C19 witness: the sweep ended a session and released the slot the UDP
\* listener held, and a WebSocket handler has claimed the slot since and is
\* in its message loop.
C19_Witness ==
    /\ uevt.kind = "timeout"
    /\ session = NoSession
    /\ \E k \in Conns : pc[k] = "open" /\ slot = waddr[k]

\* A step in which the UDP listener creates its session.
UdpCreates == upc = "approval" /\ session = NoSession /\ session' # NoSession

\* C20: the last-activity time of a session just created is its creation
\* time, however long the approval took, so that the sweep cannot destroy it
\* sooner than SESSION_TIMEOUT after it was created.
C20_FreshAtCreation ==
    [][UdpCreates => /\ elapsed(session'.last_seen) = 0
                     /\ ~timed_out(session')
      ]_vars

\* The approval requests outstanding: waiting for a permit, queued, or being
\* presented to the operator.
Outstanding ==
    Len(sendq) + Len(queue) + (IF cur # NoPending THEN 1 ELSE 0)

\* C21: a request_approval future is pending only for a task that holds the
\* ConnectionSlot, so at most one approval request is outstanding at any
\* time across both transports: the queue never holds more than one element,
\* never reaches CHANNEL_CAP, and no sender ever waits for a permit.
C21_OneOutstanding ==
    /\ \A c \in {UDP} \cup Conns : Pending(c) => Holders = {c}
    /\ Cardinality({c \in {UDP} \cup Conns : Pending(c)}) <= 1
    /\ Outstanding <= 1
    /\ Len(queue) <= 1
    /\ Len(queue) < CHANNEL_CAP
    /\ sendq = <<>>

\* C21 witness: the request of a WebSocket handler is with the operator while
\* a HELLO of the other transport was answered BUSY and issued no request.
C21_Witness ==
    /\ cur # NoPending
    /\ cur.respond \in Conns
    /\ Pending(cur.respond)
    /\ queue = <<>>
    /\ reply.msg = "BUSY"
    /\ upc = "select"

\* A step in which the worker takes a line of stdin as the answer to the
\* request it is presenting.
AnswerRead == wpc = "prompt" /\ stdin # <<>> /\ stdin' = Tail(stdin)

\* C22: the line the consumer takes as the answer to a request was typed
\* after that request was presented: no line typed before the prompt is
\* consumed as the answer.
C22_AnswerAfterPrompt ==
    [][AnswerRead => stale = 0]_vars

====
